---- MODULE Spec2Model ----
(***************************************************************************)
(* Model of scripts/merge-and-update.js (src/unnamed/part_002): the        *)
(* normalizers, the similarity scorers and mergeAndUpdateResources, the    *)
(* reconciliation of a freshly generated resource list against the stored *)
(* one.                                                                    *)
(*                                                                         *)
(* Conventions                                                             *)
(*  - A JavaScript value is a record [k, s, n]: k is the typeof-like kind, *)
(*    s the characters of a string, n the number (or 0/1 of a boolean).    *)
(*  - A string is a sequence of characters; a character is a one-letter    *)
(*    TLA+ string, the em dash and en dash being "emdash" and "endash".    *)
(*  - Similarities and scores are in tenths: 0.7 is 7, 1.0 is 10, 1.2 is   *)
(*    12, 2.0 is 20.                                                       *)
(***************************************************************************)
EXTENDS Integers, Sequences, FiniteSets, TLC

(***************************************************************************)
(* JavaScript values, as JSON.parse produces them.                         *)
(***************************************************************************)
Undefined == [k |-> "undefined", s |-> <<>>, n |-> 0]
Null      == [k |-> "null", s |-> <<>>, n |-> 0]
Str(s)    == [k |-> "string", s |-> s, n |-> 0]
Num(n)    == [k |-> "number", s |-> <<>>, n |-> n]

\* ToBoolean: what `!v` and `v || d` test.
Truthy(v) ==
    CASE v.k = "undefined" -> FALSE
      [] v.k = "null"      -> FALSE
      [] v.k = "string"    -> v.s # <<>>
      [] v.k = "number"    -> v.n # 0

\* v.toLowerCase is a function only when v is a string: calling it on a
\* number throws a TypeError.
HasStringMethods(v) == v.k = "string"

(***************************************************************************)
(* String primitives.                                                      *)
(***************************************************************************)
\* The lower-case form of one character (ASCII letters; every other
\* character of the model is its own lower-case form).
LowerChar(c) ==
    CASE c = "A" -> "a" [] c = "B" -> "b" [] c = "C" -> "c" [] c = "D" -> "d"
      [] c = "E" -> "e" [] c = "F" -> "f" [] c = "G" -> "g" [] c = "H" -> "h"
      [] c = "I" -> "i" [] c = "J" -> "j" [] c = "K" -> "k" [] c = "L" -> "l"
      [] c = "M" -> "m" [] c = "N" -> "n" [] c = "O" -> "o" [] c = "P" -> "p"
      [] c = "Q" -> "q" [] c = "R" -> "r" [] c = "S" -> "s" [] c = "T" -> "t"
      [] c = "U" -> "u" [] c = "V" -> "v" [] c = "W" -> "w" [] c = "X" -> "x"
      [] c = "Y" -> "y" [] c = "Z" -> "z"
      [] OTHER -> c

toLowerCase(s) == [i \in 1..Len(s) |-> LowerChar(s[i])]

\* The characters \s matches and trim() removes.
IsWhitespace(c) == c \in {" ", "\t", "\n"}

\* The character class [:\-emdash endash] of normalizeTitle.
IsSeparator(c) == c \in {":", "-", "emdash", "endash"}

StartsWith(s, p) == Len(s) >= Len(p) /\ SubSeq(s, 1, Len(p)) = p

Drop(s, n) == SubSeq(s, n + 1, Len(s))

RECURSIVE trimStart(_)
trimStart(s) ==
    IF s # <<>> /\ IsWhitespace(Head(s)) THEN trimStart(Tail(s)) ELSE s

RECURSIVE trimEnd(_)
trimEnd(s) ==
    IF s # <<>> /\ IsWhitespace(s[Len(s)])
    THEN trimEnd(SubSeq(s, 1, Len(s) - 1))
    ELSE s

trim(s) == trimEnd(trimStart(s))

\* The title with its separators left in place.
KeepSeparators(s) == s

\* .replace(/[:\-emdash endash]/g, " ")
ReplaceSeparators(s) ==
    [i \in 1..Len(s) |-> IF IsSeparator(s[i]) THEN " " ELSE s[i]]

\* .replace(/\s+/g, " "): every maximal run of whitespace becomes one space.
RECURSIVE CollapseWhitespace(_)
CollapseWhitespace(s) ==
    IF s = <<>> THEN <<>>
    ELSE IF IsWhitespace(Head(s))
         THEN <<" ">> \o CollapseWhitespace(trimStart(s))
         ELSE <<Head(s)>> \o CollapseWhitespace(Tail(s))

\* .replace(/^https?:\/\//, "")
HttpPrefix  == <<"h","t","t","p",":","/","/">>
HttpsPrefix == <<"h","t","t","p","s",":","/","/">>

RemoveProtocol(s) ==
    IF StartsWith(s, HttpPrefix) THEN Drop(s, Len(HttpPrefix))
    ELSE IF StartsWith(s, HttpsPrefix) THEN Drop(s, Len(HttpsPrefix))
    ELSE s

\* .replace(/^www\./, "")
WwwPrefix == <<"w","w","w",".">>

RemoveWww(s) == IF StartsWith(s, WwwPrefix) THEN Drop(s, Len(WwwPrefix)) ELSE s

\* .replace(/\/$/, "") in the place of .replace(/\/+$/, ""): one trailing
\* slash is removed.
RemoveOneTrailingSlash(s) ==
    IF s # <<>> /\ s[Len(s)] = "/" THEN SubSeq(s, 1, Len(s) - 1) ELSE s

\* .replace(/\/+$/, "")
RECURSIVE RemoveTrailingSlashes(_)
RemoveTrailingSlashes(s) ==
    IF s # <<>> /\ s[Len(s)] = "/"
    THEN RemoveTrailingSlashes(SubSeq(s, 1, Len(s) - 1))
    ELSE s

\* .replace(/\/$/, "")
RemoveFinalSlash(s) ==
    IF s # <<>> /\ s[Len(s)] = "/" THEN SubSeq(s, 1, Len(s) - 1) ELSE s

\* a.includes(b): b occurs in a as a contiguous run (the empty string
\* occurs in every string).
includes(a, b) ==
    \E p \in 0..(Len(a) - Len(b)) : \A q \in 1..Len(b) : a[p + q] = b[q]

\* The first position from `from` on where s has sep, 0 when there is none.
RECURSIVE IndexOf(_, _, _)
IndexOf(s, sep, from) ==
    IF from > Len(s) THEN 0
    ELSE IF s[from] = sep THEN from
    ELSE IndexOf(s, sep, from + 1)

\* s.split(sep) for a one-character separator: the pieces between the
\* separators, empty pieces included; "".split(sep) is [""].
RECURSIVE split(_, _)
RECURSIVE SplitAt(_, _, _)
SplitAt(s, sep, p) ==
    IF p = 0 THEN <<s>>
    ELSE <<SubSeq(s, 1, p - 1)>> \o split(Drop(s, p), sep)

split(s, sep) == SplitAt(s, sep, IndexOf(s, sep, 1))

(***************************************************************************)
(* The normalizers.                                                        *)
(***************************************************************************)
normalizeUrl(url) ==
    IF ~Truthy(url) THEN <<>>
    ELSE RemoveFinalSlash(
             RemoveTrailingSlashes(
                 RemoveWww(RemoveProtocol(toLowerCase(url.s)))))

normalizeTitle(title) ==
    IF ~Truthy(title) THEN <<>>
    ELSE trim(CollapseWhitespace(ReplaceSeparators(trim(toLowerCase(title.s)))))

(***************************************************************************)
(* The similarity scorers, in tenths.                                      *)
(***************************************************************************)
\* .filter((w) => w.length > 2), and the Set of what is kept.
LongWords(parts) ==
    {parts[i] : i \in {h \in 1..Len(parts) : Len(parts[h]) > 2}}

\* new Set(norm.split(" ").filter((w) => w.length > 2))
SignificantWords(norm) == LongWords(split(norm, " "))

\* The thresholds with 0.8 from an overlap above 0.5 on.
OverlapScoreFromHalf(inter, union) ==
    IF 2 * inter > union THEN 8 ELSE 0

\* The thresholds with 0.7 from an overlap of 0.5 on.
OverlapScoreAtHalf(inter, union) ==
    IF 10 * inter > 7 * union THEN 8
    ELSE IF 2 * inter >= union THEN 7
    ELSE 0

\* overlap > 0.7 and overlap > 0.5 on overlap = inter / union, compared
\* exactly: 10 * inter > 7 * union and 2 * inter > union.  For sets of a
\* few words the double quotient compares with the double literals as the
\* exact quotient does with 7/10 and 1/2.
OverlapScore(inter, union) ==
    IF 10 * inter > 7 * union THEN 8
    ELSE IF 2 * inter > union THEN 7
    ELSE 0

WordOverlapScore(words1, words2) ==
    OverlapScore(Cardinality(words1 \cap words2), Cardinality(words1 \cup words2))

\* The scorer testing only whether the first title contains the second.
NormalizedTitleSimilarityOneWay(norm1, norm2) ==
    IF norm1 = norm2 THEN 10
    ELSE IF includes(norm1, norm2) THEN 9
    ELSE IF SignificantWords(norm1) = {} \/ SignificantWords(norm2) = {} THEN 0
    ELSE WordOverlapScore(SignificantWords(norm1), SignificantWords(norm2))

\* titleSimilarity from `norm1 === norm2` on.
NormalizedTitleSimilarity(norm1, norm2) ==
    IF norm1 = norm2 THEN 10
    ELSE IF includes(norm1, norm2) \/ includes(norm2, norm1) THEN 9
    ELSE IF SignificantWords(norm1) = {} \/ SignificantWords(norm2) = {} THEN 0
    ELSE WordOverlapScore(SignificantWords(norm1), SignificantWords(norm2))

\* titleSimilarity without its `!title1 || !title2` guard.
titleSimilarityUnguarded(title1, title2) ==
    NormalizedTitleSimilarity(normalizeTitle(title1), normalizeTitle(title2))

titleSimilarity(title1, title2) ==
    IF ~Truthy(title1) \/ ~Truthy(title2) THEN 0
    ELSE NormalizedTitleSimilarity(normalizeTitle(title1), normalizeTitle(title2))

\* urlSimilarity from `norm1 === norm2` on.
NormalizedUrlSimilarity(norm1, norm2) ==
    IF norm1 = norm2 THEN 10
    ELSE IF split(norm1, "/")[1] = split(norm2, "/")[1] THEN 7
    ELSE 0

urlSimilarity(url1, url2) ==
    IF ~Truthy(url1) \/ ~Truthy(url2) THEN 0
    ELSE NormalizedUrlSimilarity(normalizeUrl(url1), normalizeUrl(url2))

\* Whether the call throws: both arguments pass the `!a || !b` guard and
\* one of them has no toLowerCase.
SimilarityThrows(a, b) ==
    /\ Truthy(a)
    /\ Truthy(b)
    /\ ~HasStringMethods(a) \/ ~HasStringMethods(b)

(***************************************************************************)
(* The matcher's scoring (the callback of the inner forEach).              *)
(***************************************************************************)
\* The chain with the title-only branch tested before the 1.8 branch.
CombinedScoreReordered(tSim, uSim) ==
    IF tSim = 10 /\ uSim = 10 THEN 20
    ELSE IF tSim >= 9 THEN 15
    ELSE IF tSim >= 9 /\ uSim >= 7 THEN 18
    ELSE IF tSim >= 8 /\ uSim >= 7 THEN 13
    ELSE IF tSim >= 7 /\ uSim = 10 THEN 12
    ELSE 0

\* The chain without its first branch: two equal titles with equal URLs
\* score 1.8.
CombinedScoreNoPerfect(tSim, uSim) ==
    IF tSim >= 9 /\ uSim >= 7 THEN 18
    ELSE IF tSim >= 9 THEN 15
    ELSE IF tSim >= 8 /\ uSim >= 7 THEN 13
    ELSE IF tSim >= 7 /\ uSim = 10 THEN 12
    ELSE 0

\* The if / else-if chain that sets `score`.
CombinedScore(tSim, uSim) ==
    IF tSim = 10 /\ uSim = 10 THEN 20
    ELSE IF tSim >= 9 /\ uSim >= 7 THEN 18
    ELSE IF tSim >= 9 THEN 15
    ELSE IF tSim >= 8 /\ uSim >= 7 THEN 13
    ELSE IF tSim >= 7 /\ uSim = 10 THEN 12
    ELSE 0

\* if (score >= bestScore): the last of several equal candidates is kept.
ReplacesBestOrTies(newScore, best) == newScore >= best

\* if (score > bestScore)
ReplacesBest(newScore, best) == newScore > best

\* The labels with "exact" from 1.8 on.
MatchTypeOfLoose(s) ==
    IF s >= 18 THEN "exact" ELSE IF s >= 13 THEN "fuzzy" ELSE "weak"

\* The matchType chosen when a candidate becomes the best one.
MatchTypeOf(s) ==
    IF s >= 20 THEN "exact" ELSE IF s >= 13 THEN "fuzzy" ELSE "weak"

\* if (bestMatch && bestScore > 1.2)
AcceptedAbove(match, best) == match # 0 /\ best > 12

\* if (bestMatch && bestScore >= 1.2); bestMatch is null (here 0) or a
\* resource object, and every object is truthy.
Accepted(match, best) == match # 0 /\ best >= 12

\* a + 1 in JavaScript: a number is incremented, a string gets the
\* character 1 appended.
PlusOne(a) ==
    CASE a.k = "number" -> Num(a.n + 1)
      [] a.k = "string" -> Str(a.s \o <<"1">>)

\* (bestMatch.weeks_on_list || 1) + 1
IncrementedWeeks(w) == PlusOne(IF Truthy(w) THEN w ELSE Num(1))

\* Which tally an accepted match increments.
CountsAsExact(type) == type = "exact"

(***************************************************************************)
(* Inputs: the two JSON files.                                             *)
(***************************************************************************)
MaxPrior == 2
MaxNew == 2

\* "Clean Code: A Handbook"
TitleColon ==
    <<"C","l","e","a","n"," ","C","o","d","e",":"," ","A"," ","H","a","n","d","b","o","o","k">>

\* "Clean Code - A Handbook"
TitleHyphen ==
    <<"C","l","e","a","n"," ","C","o","d","e"," ","-"," ","A"," ","H","a","n","d","b","o","o","k">>

\* "Clean Code"
TitleShort ==
    <<"C","l","e","a","n"," ","C","o","d","e">>

\* "Code Clean Handbook"
TitleReordered ==
    <<"C","o","d","e"," ","C","l","e","a","n"," ","H","a","n","d","b","o","o","k">>

\* "Handbook Clean"
TitlePartial ==
    <<"H","a","n","d","b","o","o","k"," ","C","l","e","a","n">>

\* "https://example.com/book"
UrlBook ==
    <<"h","t","t","p","s",":","/","/","e","x","a","m","p","l","e",".","c","o","m","/","b","o","o","k">>

\* "http://www.Example.com/book/"
UrlBookVariant ==
    <<"h","t","t","p",":","/","/","w","w","w",".","E","x","a","m","p","l","e",".","c","o","m","/","b","o","o","k","/">>

\* "https://example.com/other"
UrlOther ==
    <<"h","t","t","p","s",":","/","/","e","x","a","m","p","l","e",".","c","o","m","/","o","t","h","e","r">>

\* "book"
TypeBook == <<"b","o","o","k">>

Resource(title, source, weeks) ==
    [title |-> title, source |-> source, type |-> Str(TypeBook),
     weeks_on_list |-> weeks]

\* Entries of /tmp/current-resources.json: the stored list.  The counter is
\* whatever the stored document holds: a count, 0, a negative number, a
\* string, nothing; one entry has a number where its URL should be.
PriorPool ==
    { Resource(Str(TitleColon), Str(UrlBook), Num(3)),
      Resource(Str(TitleColon), Str(UrlBook), Num(0)),
      Resource(Str(TitleColon), Str(UrlBook), Num(-1)),
      Resource(Str(TitleColon), Str(UrlBook), Str(<<"3">>)),
      Resource(Str(TitleShort), Str(UrlOther), Undefined),
      Resource(Str(TitleColon), Num(404), Num(1)) }

\* Entries of /tmp/new-resources.json: the generated list.
NewPool ==
    { Resource(Str(TitleHyphen), Str(UrlBookVariant), Undefined),
      Resource(Str(TitleShort), Str(UrlOther), Num(9)),
      Resource(Str(TitleReordered), Str(UrlOther), Undefined),
      Resource(Str(TitlePartial), Str(UrlOther), Undefined),
      Resource(Str(TitleColon), Str(<<>>), Undefined),
      Resource(Null, Str(UrlBook), Undefined) }

SeqsUpTo(S, n) == UNION {[1..m -> S] : m \in 0..n}

\* A file: absent, or a parsed document whose `resources` is an array or
\* is not one.  Both files hold valid JSON and every entry of an array is
\* an object: a file JSON.parse rejects, or a null entry, ends the script
\* with an uncaught exception before anything is matched.
MissingFile == [exists |-> FALSE, hasArray |-> FALSE, resources |-> <<>>]
NoArrayFile == [exists |-> TRUE, hasArray |-> FALSE, resources |-> <<>>]
ArrayFile(r) == [exists |-> TRUE, hasArray |-> TRUE, resources |-> r]

CurrentFiles ==
    {MissingFile, NoArrayFile} \cup {ArrayFile(r) : r \in SeqsUpTo(PriorPool, MaxPrior)}

NewFiles ==
    {MissingFile, NoArrayFile} \cup {ArrayFile(r) : r \in SeqsUpTo(NewPool, MaxNew)}

(***************************************************************************)
(* mergeAndUpdateResources as a state machine.                             *)
(***************************************************************************)
VARIABLES
    currentFile,            \* /tmp/current-resources.json
    newFile,                \* /tmp/new-resources.json
    mergedFile,             \* /tmp/merged-resources.json
    pc,                     \* "start", "match", "write", "done", "exit", "raised"
    currentResourcesArray,  \* the prior resources being matched against
    newResources,           \* the parsed new document, annotated in place
    i,                      \* position of the outer forEach (newResource)
    j,                      \* position of the inner forEach (currentResource)
    bestMatch,              \* index in currentResourcesArray, 0 for null
    bestScore,
    matchType,
    titleSim,               \* the inner callback's locals, as last computed
    urlSim,
    score,
    exactMatched,
    fuzzyMatched,
    newCount

\* scripts/generate-resources.js, the script that writes
\* /tmp/new-resources.json (the variable newFile).
VARIABLES
    genPc,                  \* position in the script; "idle" when it is not run
    hasApiKey,              \* ANTHROPIC_API_KEY is set
    hasPrompt,              \* the prompt file exists
    apiCalls,               \* number of calls of fetch
    response,               \* what fetch returned
    resources,              \* the value JSON.parse returned
    rawResponseFile,        \* /tmp/raw-response.txt
    exitCode,               \* "none" while the script runs, then "0" or "1"
    targetCount,            \* TARGET_RESOURCE_COUNT
    mode,                   \* "update" or "generate" once the instruction is built
    currentCount,           \* the numbers put into the instruction
    minKeep,
    maxNew

\* What the instruction is built from and the numbers put into it.
instructionVars == <<targetCount, mode, currentCount, minKeep, maxNew>>

genVars ==
    <<genPc, hasApiKey, hasPrompt, apiCalls, response, resources,
      rawResponseFile, exitCode, instructionVars>>

vars ==
    <<currentFile, newFile, mergedFile, pc, currentResourcesArray, newResources,
      i, j, bestMatch, bestScore, matchType, titleSim, urlSim, score,
      exactMatched, fuzzyMatched, newCount, genVars>>

NoValue == [exists |-> FALSE, hasArray |-> FALSE, resources |-> <<>>]
NoText ==
    [present |-> FALSE, open |-> FALSE, close |-> FALSE, parsedBy |-> 0,
     value |-> NoValue]
NoResponse == [ok |-> FALSE, text |-> NoText]

\* Line 22: process.env.TARGET_RESOURCE_COUNT || "20".
DefaultTargetCount == 20

\* The generation script is not part of the run.
GenIdle ==
    /\ genPc = "idle"
    /\ hasApiKey = TRUE
    /\ hasPrompt = TRUE
    /\ apiCalls = 0
    /\ response = NoResponse
    /\ resources = NoValue
    /\ rawResponseFile = NoText
    /\ exitCode = "none"
    /\ targetCount = DefaultTargetCount
    /\ mode = "none"
    /\ currentCount = 0
    /\ minKeep = 0
    /\ maxNew = 0

NoFile == [exists |-> FALSE, hasArray |-> FALSE, resources |-> <<>>]

Init ==
    /\ currentFile \in CurrentFiles
    /\ newFile \in NewFiles
    /\ mergedFile = NoFile
    /\ pc = "start"
    /\ currentResourcesArray = <<>>
    /\ newResources = NoFile
    /\ i = 1
    /\ j = 1
    /\ bestMatch = 0
    /\ bestScore = 0
    /\ matchType = "none"
    /\ titleSim = 0
    /\ urlSim = 0
    /\ score = 0
    /\ exactMatched = 0
    /\ fuzzyMatched = 0
    /\ newCount = 0
    /\ GenIdle

\* bestMatch, bestScore and matchType declared once, outside the outer
\* callback: the next new resource starts from the best match of the last.
ResetMatchKeepsBest ==
    /\ UNCHANGED <<bestMatch, bestScore, matchType>>
    /\ titleSim' = 0
    /\ urlSim' = 0
    /\ score' = 0
    /\ j' = 1

\* The three `let` of the outer callback.
ResetMatch ==
    /\ bestMatch' = 0
    /\ bestScore' = 0
    /\ matchType' = "none"
    /\ titleSim' = 0
    /\ urlSim' = 0
    /\ score' = 0
    /\ j' = 1

\* Existence checks, JSON.parse of both files, currentResourcesArray, the
\* tallies; then the outer forEach starts, or is skipped.
ReadFiles ==
    /\ pc = "start"
    /\ IF ~currentFile.exists \/ ~newFile.exists
       THEN /\ pc' = "exit"
            /\ UNCHANGED <<currentResourcesArray, newResources>>
       ELSE /\ currentResourcesArray' =
                   IF currentFile.hasArray THEN currentFile.resources ELSE <<>>
            /\ newResources' = newFile
            /\ pc' = IF newFile.hasArray /\ Len(newFile.resources) > 0
                     THEN "match" ELSE "write"
    /\ UNCHANGED <<currentFile, newFile, mergedFile, i, j, bestMatch, bestScore,
                   matchType, titleSim, urlSim, score, exactMatched,
                   fuzzyMatched, newCount>>
    /\ UNCHANGED genVars

\* One call of the inner callback: newResource against currentResource.
Compare ==
    /\ pc = "match"
    /\ j <= Len(currentResourcesArray)
    /\ LET newResource == newResources.resources[i]
           currentResource == currentResourcesArray[j]
       IN  IF \/ SimilarityThrows(newResource.title, currentResource.title)
              \/ SimilarityThrows(newResource.source, currentResource.source)
           THEN /\ pc' = "raised"
                /\ UNCHANGED <<j, bestMatch, bestScore, matchType, titleSim,
                               urlSim, score>>
           ELSE /\ titleSim' = titleSimilarity(newResource.title, currentResource.title)
                /\ urlSim' = urlSimilarity(newResource.source, currentResource.source)
                /\ score' = CombinedScore(titleSim', urlSim')
                /\ IF ReplacesBest(score', bestScore)
                   THEN /\ bestScore' = score'
                        /\ bestMatch' = j
                        /\ matchType' = MatchTypeOf(score')
                   ELSE UNCHANGED <<bestScore, bestMatch, matchType>>
                /\ j' = j + 1
                /\ pc' = "match"
    /\ UNCHANGED <<currentFile, newFile, mergedFile, currentResourcesArray,
                   newResources, i, exactMatched, fuzzyMatched, newCount>>
    /\ UNCHANGED genVars

\* The annotated entry pushed onto the entries annotated before it instead
\* of being updated in place: the entries after it are lost.
SetWeeksOnCopy(doc, idx, weeks) ==
    [doc EXCEPT !.resources =
        Append(SubSeq(@, 1, idx - 1), [@[idx] EXCEPT !.weeks_on_list = weeks])]

\* newResource.weeks_on_list = weeks, on the idx-th entry of the document.
SetWeeks(doc, idx, weeks) ==
    [doc EXCEPT !.resources[idx].weeks_on_list = weeks]

\* if (matchType === "exact") exactMatched++; fuzzyMatched++;
CountMatchNoElse(type) ==
    /\ exactMatched' = IF CountsAsExact(type) THEN exactMatched + 1 ELSE exactMatched
    /\ fuzzyMatched' = fuzzyMatched + 1

\* if (matchType === "exact") exactMatched++; else fuzzyMatched++;
CountMatch(type) ==
    IF CountsAsExact(type)
    THEN /\ exactMatched' = exactMatched + 1
         /\ UNCHANGED fuzzyMatched
    ELSE /\ fuzzyMatched' = fuzzyMatched + 1
         /\ UNCHANGED exactMatched

\* The outer callback writing the new counter to bestMatch as well, the
\* stored entry itself.
UpdateAlsoStored ==
    /\ pc = "match"
    /\ j > Len(currentResourcesArray)
    /\ IF Accepted(bestMatch, bestScore)
       THEN /\ newResources' =
                   SetWeeks(newResources, i,
                       IncrementedWeeks(currentResourcesArray[bestMatch].weeks_on_list))
            /\ currentResourcesArray' =
                   [currentResourcesArray EXCEPT ![bestMatch].weeks_on_list =
                       IncrementedWeeks(@)]
            /\ CountMatch(matchType)
            /\ UNCHANGED newCount
       ELSE /\ newResources' = SetWeeks(newResources, i, Num(1))
            /\ newCount' = newCount + 1
            /\ UNCHANGED <<exactMatched, fuzzyMatched, currentResourcesArray>>
    /\ ResetMatch
    /\ IF i < Len(newResources'.resources)
       THEN /\ i' = i + 1
            /\ pc' = "match"
       ELSE /\ UNCHANGED i
            /\ pc' = "write"
    /\ UNCHANGED <<currentFile, newFile, mergedFile>>
    /\ UNCHANGED genVars

\* The rest of the outer callback, after the inner forEach: accept the best
\* match or count the resource as new; then the next newResource, if any.
Update ==
    /\ pc = "match"
    /\ j > Len(currentResourcesArray)
    /\ IF Accepted(bestMatch, bestScore)
       THEN /\ newResources' =
                   SetWeeks(newResources, i,
                       IncrementedWeeks(currentResourcesArray[bestMatch].weeks_on_list))
            /\ CountMatch(matchType)
            /\ UNCHANGED newCount
       ELSE /\ newResources' = SetWeeks(newResources, i, Num(1))
            /\ newCount' = newCount + 1
            /\ UNCHANGED <<exactMatched, fuzzyMatched>>
    /\ ResetMatch
    /\ IF i < Len(newResources'.resources)
       THEN /\ i' = i + 1
            /\ pc' = "match"
       ELSE /\ UNCHANGED i
            /\ pc' = "write"
    /\ UNCHANGED <<currentFile, newFile, mergedFile, currentResourcesArray>>
    /\ UNCHANGED genVars

\* fs.writeFileSync(MERGED_RESOURCES_PATH, JSON.stringify(newResources)) and
\* the return.
WriteMerged ==
    /\ pc = "write"
    /\ mergedFile' = newResources
    /\ pc' = "done"
    /\ UNCHANGED <<currentFile, newFile, currentResourcesArray, newResources,
                   i, j, bestMatch, bestScore, matchType, titleSim, urlSim,
                   score, exactMatched, fuzzyMatched, newCount>>
    /\ UNCHANGED genVars

Next == ReadFiles \/ Compare \/ Update \/ WriteMerged

Spec == Init /\ [][Next]_vars

(***************************************************************************)
(* Vocabulary of the properties.                                           *)
(***************************************************************************)
\* The combined score of one new resource against one prior resource.
PairScore(newResource, currentResource) ==
    CombinedScore(titleSimilarity(newResource.title, currentResource.title),
                  urlSimilarity(newResource.source, currentResource.source))

\* The combined scores of newResource against the first upto prior resources.
ScoresUpTo(newResource, upto) ==
    [k \in 1..upto |-> PairScore(newResource, currentResourcesArray[k])]

\* The highest of the scores f, 0 when there is none.
Highest(f) ==
    CHOOSE m \in {f[k] : k \in DOMAIN f} \cup {0} :
        \A k \in DOMAIN f : f[k] <= m

\* The first position where f is m, 0 (no candidate) when m is 0.
FirstAt(f, m) ==
    IF m = 0 THEN 0
    ELSE CHOOSE k \in DOMAIN f : f[k] = m /\ \A h \in 1..(k - 1) : f[h] # m

\* The step that finishes newResource i: the inner forEach is over.
FinishesResource == pc = "match" /\ j > Len(currentResourcesArray)

\* The new resource being processed, and the prior one it is compared with.
ThisNew == newResources.resources[i]
AllScores == ScoresUpTo(ThisNew, Len(currentResourcesArray))

\* The counter the finishing step gives newResource i.
WeeksGiven == newResources'.resources[i].weeks_on_list

\* The finishing step counts newResource i as new, as an exact match, as a
\* fuzzy match: that tally goes up by one and the other two stay.
TalliedNew ==
    /\ newCount' = newCount + 1
    /\ UNCHANGED <<exactMatched, fuzzyMatched>>
TalliedExact ==
    /\ exactMatched' = exactMatched + 1
    /\ UNCHANGED <<fuzzyMatched, newCount>>
TalliedFuzzy ==
    /\ fuzzyMatched' = fuzzyMatched + 1
    /\ UNCHANGED <<exactMatched, newCount>>

\* out holds the entries of in, in the same order, with the same title,
\* source and type.
SameButWeeks(out, in) ==
    /\ Len(out) = Len(in)
    /\ \A k \in 1..Len(in) :
        /\ out[k].title = in[k].title
        /\ out[k].source = in[k].source
        /\ out[k].type = in[k].type

\* The number of new resources the outer forEach has finished.
Processed ==
    CASE pc \in {"start", "exit"}   -> 0
      [] pc \in {"match", "raised"} -> i - 1
      [] pc \in {"write", "done"}   -> Len(newFile.resources)

(***************************************************************************)
(* C1: after any prefix of k new resources the three tallies add up to k,  *)
(* and to the length of the new list on completion; each finished new      *)
(* resource increments exactly one tally, by one.                          *)
(***************************************************************************)
C1_TalliesAddUp == exactMatched + fuzzyMatched + newCount = Processed

C1_OneTallyPerResource ==
    FinishesResource => (TalliedNew \/ TalliedExact \/ TalliedFuzzy)

C1_Tallies == []C1_TalliesAddUp /\ [][C1_OneTallyPerResource]_vars

C1_Witness ==
    /\ pc = "done"
    /\ Len(newFile.resources) = 2
    /\ exactMatched = 1
    /\ fuzzyMatched = 1

(***************************************************************************)
(* C2: the output has the length of the new list and its k-th entry has    *)
(* the title, source and type of the k-th input entry, at every step and   *)
(* in the written result: only weeks_on_list changes.                      *)
(***************************************************************************)
C2_OnlyWeeksChange ==
    /\ pc \notin {"start", "exit"} =>
           SameButWeeks(newResources.resources, newFile.resources)
    /\ pc = "done" =>
           /\ mergedFile.exists
           /\ SameButWeeks(mergedFile.resources, newFile.resources)

C2_Witness ==
    /\ pc = "done"
    /\ Len(newFile.resources) = 2
    /\ Len(currentResourcesArray) > 0
    /\ \A k \in 1..2 :
           mergedFile.resources[k].weeks_on_list # newFile.resources[k].weeks_on_list

(***************************************************************************)
(* C3: after reconcile completes every resource of the output has          *)
(* weeks_on_list >= 1, whatever counters the prior entries carry.          *)
(***************************************************************************)
Digits == <<"0", "1", "2", "3", "4", "5", "6", "7", "8", "9">>

IsDigit(c) == \E d \in 1..10 : Digits[d] = c

DigitOf(c) == (CHOOSE d \in 1..10 : Digits[d] = c) - 1

\* The number a string of digits converts to.
RECURSIVE NumberOf(_)
NumberOf(s) ==
    IF s = <<>> THEN 0
    ELSE 10 * NumberOf(SubSeq(s, 1, Len(s) - 1)) + DigitOf(s[Len(s)])

\* v >= 1, as JavaScript compares: a number is at least 1, a string of
\* digits converts to a number that is.
AtLeastOne(v) ==
    \/ v.k = "number" /\ v.n >= 1
    \/ /\ v.k = "string"
       /\ v.s # <<>>
       /\ \A p \in 1..Len(v.s) : IsDigit(v.s[p])
       /\ NumberOf(v.s) >= 1

C3_WeeksAtLeastOne ==
    pc = "done" =>
        \A k \in 1..Len(mergedFile.resources) :
            AtLeastOne(mergedFile.resources[k].weeks_on_list)

(***************************************************************************)
(* C4: a new resource accepted as a match of a prior resource whose        *)
(* weeks_on_list is an integer w >= 0 (0 included) gets exactly w + 1.     *)
(***************************************************************************)
C4_MatchedGetsPriorPlusOne ==
    [][ FinishesResource /\ ~TalliedNew
        /\ currentResourcesArray[bestMatch].weeks_on_list.k = "number"
        /\ currentResourcesArray[bestMatch].weeks_on_list.n >= 0
        => WeeksGiven = Num(currentResourcesArray[bestMatch].weeks_on_list.n + 1)
      ]_vars

(***************************************************************************)
(* C5: a new resource accepted as a match of a prior resource whose        *)
(* weeks_on_list is absent or not a number gets the integer 2.             *)
(***************************************************************************)
C5_NonNumericCountsAsOne ==
    [][ FinishesResource /\ ~TalliedNew
        /\ currentResourcesArray[bestMatch].weeks_on_list.k # "number"
        => WeeksGiven = Num(2)
      ]_vars

(***************************************************************************)
(* C6: a new resource is accepted as a match exactly when the highest      *)
(* combined score over all prior resources is >= 1.2; otherwise (an empty  *)
(* prior list included) it gets weeks_on_list = 1 and only newCount goes   *)
(* up.                                                                     *)
(***************************************************************************)
\* The finishing step accepts the first prior resource with the highest of
\* the scores f: its counter, incremented, is given and a match is tallied.
AcceptsFirstBest(f) ==
    /\ TalliedExact \/ TalliedFuzzy
    /\ WeeksGiven =
           IncrementedWeeks(
               currentResourcesArray[FirstAt(f, Highest(f))].weeks_on_list)

AcceptsIffThreshold(f) ==
    IF Highest(f) >= 12
    THEN AcceptsFirstBest(f)
    ELSE TalliedNew /\ WeeksGiven = Num(1)

C6_AcceptedIffThreshold ==
    [][FinishesResource => AcceptsIffThreshold(AllScores)]_vars

\* A resource whose best score is exactly 1.2 was accepted, one whose title
\* and URL are similar (0.7 and 0.7) but score 0 was not.
C6_Witness ==
    /\ pc = "done"
    /\ Len(newFile.resources) = 2
    /\ Len(currentResourcesArray) > 0
    /\ Highest(ScoresUpTo(newFile.resources[1], Len(currentResourcesArray))) = 12
    /\ mergedFile.resources[1].weeks_on_list = Num(2)
    /\ Highest(ScoresUpTo(newFile.resources[2], Len(currentResourcesArray))) = 0
    /\ mergedFile.resources[2].weeks_on_list = Num(1)
    /\ fuzzyMatched = 1
    /\ newCount = 1

(***************************************************************************)
(* C7: the combined score is the score of the first satisfied row of the   *)
(* decision table, for every titleSim in {0, 0.7, 0.8, 0.9, 1.0} and       *)
(* urlSim in {0, 0.7, 1.0}; it is one of 0, 1.2, 1.3, 1.5, 1.8, 2.0.       *)
(***************************************************************************)
TitleSims == {0, 7, 8, 9, 10}
UrlSims == {0, 7, 10}

RowHolds(row, t, u) ==
    CASE row = 1 -> t = 10 /\ u = 10
      [] row = 2 -> t >= 9 /\ u >= 7
      [] row = 3 -> t >= 9
      [] row = 4 -> t >= 8 /\ u >= 7
      [] row = 5 -> t >= 7 /\ u = 10

RowScore == <<20, 18, 15, 13, 12>>

FirstRowScore(t, u) ==
    IF \E row \in 1..5 : RowHolds(row, t, u)
    THEN RowScore[CHOOSE row \in 1..5 :
                      /\ RowHolds(row, t, u)
                      /\ \A before \in 1..(row - 1) : ~RowHolds(before, t, u)]
    ELSE 0

C7_ScoreIsFirstRow ==
    /\ \A t \in TitleSims, u \in UrlSims :
           /\ CombinedScore(t, u) = FirstRowScore(t, u)
           /\ CombinedScore(t, u) \in {0, 12, 13, 15, 18, 20}
    /\ titleSim \in TitleSims
    /\ urlSim \in UrlSims
    /\ score = FirstRowScore(titleSim, urlSim)

C7_Witness ==
    /\ pc = "match"
    /\ j = 3
    /\ titleSim = 9
    /\ urlSim = 7
    /\ score = 18
    /\ bestScore = 20

(***************************************************************************)
(* C8: while the matcher goes through the prior list, bestScore is the     *)
(* highest combined score among the prior resources visited so far and     *)
(* bestMatch the first of them that has it (none while that score is 0);   *)
(* when several tie for the highest score, the counter of the first in     *)
(* prior order is the one used.                                            *)
(***************************************************************************)
BestIsFirstHighest(f) ==
    /\ bestScore = Highest(f)
    /\ bestMatch = FirstAt(f, Highest(f))

C8_BestSoFar ==
    pc = "match" => BestIsFirstHighest(ScoresUpTo(ThisNew, j - 1))

C8_FirstOfTiesUsed ==
    FinishesResource /\ ~TalliedNew => AcceptsFirstBest(AllScores)

LabelOf(s) ==
    CASE s >= 20           -> "exact"
      [] s >= 13 /\ s < 20 -> "fuzzy"
      [] s >= 12 /\ s < 13 -> "weak"
      [] s < 12            -> "none"

C9_LabelFollowsBest ==
    pc = "match" => matchType = LabelOf(Highest(ScoresUpTo(ThisNew, j - 1)))

ExactFrom20(best) ==
    best >= 12 => IF best >= 20 THEN TalliedExact ELSE TalliedFuzzy

C9_TallyFollowsLabel ==
    FinishesResource => ExactFrom20(Highest(AllScores))

C9_ExactOrFuzzy == []C9_LabelFollowsBest /\ [][C9_TallyFollowsLabel]_vars

\* A fuzzy candidate came first and an exact one later: counted as exact;
\* and a match below 2.0 was counted as fuzzy.
C9_Witness ==
    /\ pc = "done"
    /\ Len(currentResourcesArray) = 2
    /\ Len(newFile.resources) = 2
    /\ PairScore(newFile.resources[1], currentResourcesArray[1]) = 18
    /\ PairScore(newFile.resources[1], currentResourcesArray[2]) = 20
    /\ Highest(ScoresUpTo(newFile.resources[2], 2)) = 13
    /\ exactMatched = 1
    /\ fuzzyMatched = 1

(***************************************************************************)
(* C10, as stated: a new resource whose title or source is absent or empty *)
(* is classified as new (weeks_on_list = 1, newCount incremented) for      *)
(* every prior collection.                                                 *)
(***************************************************************************)
Absent(v) == ~Truthy(v)

TitleSimWith(k) == titleSimilarity(ThisNew.title, currentResourcesArray[k].title)
UrlSimWith(k) == urlSimilarity(ThisNew.source, currentResourcesArray[k].source)

TitleAlike == {k \in 1..Len(currentResourcesArray) : TitleSimWith(k) >= 9}

First(S) == CHOOSE k \in S : \A h \in S : k <= h

C10_AbsentTitleIsNew ==
    FinishesResource /\ Absent(ThisNew.title) =>
        /\ \A k \in 1..Len(currentResourcesArray) : TitleSimWith(k) = 0
        /\ TalliedNew
        /\ WeeksGiven = Num(1)

C10_AbsentSourceTitleDecides ==
    FinishesResource /\ Absent(ThisNew.source) =>
        /\ \A k \in 1..Len(currentResourcesArray) : UrlSimWith(k) = 0
        /\ IF TitleAlike = {}
           THEN TalliedNew /\ WeeksGiven = Num(1)
           ELSE /\ TalliedFuzzy
                /\ WeeksGiven =
                       IncrementedWeeks(
                           currentResourcesArray[First(TitleAlike)].weeks_on_list)

NotAString(v) == Truthy(v) /\ v.k # "string"

C10_RaisesOnlyOnNonString ==
    pc = "raised" /\ (Absent(ThisNew.title) \/ Absent(ThisNew.source)) =>
        \/ NotAString(currentResourcesArray[j].title)
        \/ NotAString(currentResourcesArray[j].source)

PriorAsRead == IF currentFile.hasArray THEN currentFile.resources ELSE <<>>

C16_PriorAsRead ==
    pc \notin {"start", "exit"} => currentResourcesArray = PriorAsRead

C16_StepKeepsPrior ==
    /\ currentFile' = currentFile
    /\ pc # "start" => currentResourcesArray' = currentResourcesArray

C16_PriorUntouched == []C16_PriorAsRead /\ [][C16_StepKeepsPrior]_vars

\* Two new resources were matched with the stored entry and got 4; the
\* stored entry still has 3.
C16_Witness ==
    /\ pc = "done"
    /\ Len(currentResourcesArray) = 1
    /\ Len(mergedFile.resources) = 2
    /\ mergedFile.resources[1].weeks_on_list = Num(4)
    /\ mergedFile.resources[2].weeks_on_list = Num(4)
    /\ currentResourcesArray[1].weeks_on_list = Num(3)
    /\ currentFile.resources[1].weeks_on_list = Num(3)

(***************************************************************************)
(* C17: each new resource is matched independently of the other new        *)
(* resources: its weeks_on_list and its tally depend on the resource and   *)
(* the prior collection only, not on the other new resources, their order  *)
(* or their matches; two new resources may be accepted against the same    *)
(* prior resource and both get its counter + 1.                            *)
(***************************************************************************)
\* What the scores f of one new resource against the prior list give it.
OutcomeOf(f, prior) ==
    IF Highest(f) >= 12
    THEN [weeks |-> IncrementedWeeks(prior[FirstAt(f, Highest(f))].weeks_on_list),
          tally |-> IF Highest(f) >= 20 THEN "exact" ELSE "fuzzy"]
    ELSE [weeks |-> Num(1), tally |-> "new"]

\* The outcome of a new resource r: a function of r and the prior list.
Outcome(r) == OutcomeOf(ScoresUpTo(r, Len(PriorAsRead)), PriorAsRead)

Tallied(list, tally) ==
    Cardinality({k \in 1..Len(list) : Outcome(list[k]).tally = tally})

C17_EachOnItsOwn ==
    pc = "done" /\ newFile.hasArray =>
        /\ \A k \in 1..Len(newFile.resources) :
               mergedFile.resources[k].weeks_on_list = Outcome(newFile.resources[k]).weeks
        /\ exactMatched = Tallied(newFile.resources, "exact")
        /\ fuzzyMatched = Tallied(newFile.resources, "fuzzy")
        /\ newCount = Tallied(newFile.resources, "new")

\* Two different new resources were accepted against the one stored
\* resource, the first as an exact and the second as a fuzzy match, and
\* both got its counter + 1.
C17_Witness ==
    /\ pc = "done"
    /\ Len(currentResourcesArray) = 1
    /\ currentResourcesArray[1].weeks_on_list = Num(3)
    /\ Len(newFile.resources) = 2
    /\ newFile.resources[1].title # newFile.resources[2].title
    /\ mergedFile.resources[1].weeks_on_list = Num(4)
    /\ mergedFile.resources[2].weeks_on_list = Num(4)
    /\ exactMatched = 1
    /\ fuzzyMatched = 1

(***************************************************************************)
(* Resubmission: the stored list is reconciled against an identical copy   *)
(* of itself.                                                              *)
(***************************************************************************)
MaxResubmit == 2

\* Stored entries: two with the same title and URL and different counters,
\* one that differs from them in punctuation, protocol, www. and case only,
\* one with the counter 0, one without a URL.
ResubmitPool ==
    { Resource(Str(TitleColon), Str(UrlBook), Num(3)),
      Resource(Str(TitleColon), Str(UrlBook), Num(5)),
      Resource(Str(TitleHyphen), Str(UrlBookVariant), Num(7)),
      Resource(Str(TitleShort), Str(UrlOther), Num(1)),
      Resource(Str(TitleShort), Str(UrlOther), Num(0)),
      Resource(Str(TitleReordered), Str(<<>>), Num(2)) }

ResubmitInit ==
    /\ currentFile \in {ArrayFile(r) : r \in SeqsUpTo(ResubmitPool, MaxResubmit)}
    /\ newFile = currentFile
    /\ mergedFile = NoFile
    /\ pc = "start"
    /\ currentResourcesArray = <<>>
    /\ newResources = NoFile
    /\ i = 1
    /\ j = 1
    /\ bestMatch = 0
    /\ bestScore = 0
    /\ matchType = "none"
    /\ titleSim = 0
    /\ urlSim = 0
    /\ score = 0
    /\ exactMatched = 0
    /\ fuzzyMatched = 0
    /\ newCount = 0
    /\ GenIdle

ResubmitSpec == ResubmitInit /\ [][Next]_vars

\* Every entry has a title and a source.
AllPresent(list) ==
    \A k \in 1..Len(list) : Truthy(list[k].title) /\ Truthy(list[k].source)

\* Every entry's counter is an integer of at least 1.
AllCounted(list) ==
    \A k \in 1..Len(list) :
        list[k].weeks_on_list.k = "number" /\ list[k].weeks_on_list.n >= 1

OnlyExactMatches(list) ==
    /\ exactMatched = Len(list)
    /\ fuzzyMatched = 0
    /\ newCount = 0

(***************************************************************************)
(* C11, as stated, on stored lists of entries with a title, a source and a *)
(* counter of at least 1: reconciled against an identical copy, every      *)
(* entry k gets the counter of entry k plus 1, and every entry is tallied  *)
(* as an exact match -- lists with two entries of the same title and       *)
(* source and different counters included.                                 *)
(***************************************************************************)
C11_EveryEntryPlusOne ==
    pc = "done" /\ AllPresent(currentFile.resources)
                /\ AllCounted(currentFile.resources) =>
        /\ \A k \in 1..Len(currentFile.resources) :
               mergedFile.resources[k].weeks_on_list =
                   Num(currentFile.resources[k].weeks_on_list.n + 1)
        /\ OnlyExactMatches(currentFile.resources)

(***************************************************************************)
(* C11, amended: reconciled against an identical copy, a stored list whose *)
(* entries all have a title and a source gives exactMatched = its length,  *)
(* fuzzyMatched = 0, newCount = 0, and entry k gets the counter of the     *)
(* first stored entry with the normalized title and source of entry k,     *)
(* through (w || 1) + 1: the counter of entry k plus 1 when no earlier     *)
(* entry has its normalized title and source and its counter is a number   *)
(* other than 0.                                                           *)
(***************************************************************************)
SameNormalized(a, b) ==
    /\ normalizeTitle(a.title) = normalizeTitle(b.title)
    /\ normalizeUrl(a.source) = normalizeUrl(b.source)

FirstTwin(list, k) ==
    CHOOSE h \in 1..k :
        /\ SameNormalized(list[h], list[k])
        /\ \A g \in 1..(h - 1) : ~SameNormalized(list[g], list[k])

C11_FirstTwinPlusOne ==
    pc = "done" /\ AllPresent(currentFile.resources) =>
        /\ \A k \in 1..Len(currentFile.resources) :
               /\ mergedFile.resources[k].weeks_on_list =
                      IncrementedWeeks(
                          currentFile.resources[
                              FirstTwin(currentFile.resources, k)].weeks_on_list)
               /\ FirstTwin(currentFile.resources, k) = k
                  /\ AllCounted(<<currentFile.resources[k]>>) =>
                      mergedFile.resources[k].weeks_on_list =
                          Num(currentFile.resources[k].weeks_on_list.n + 1)
        /\ OnlyExactMatches(currentFile.resources)

\* Two stored entries with the same title and source and the counters 3 and
\* 5: both copies got 4.
C11_Witness ==
    /\ pc = "done"
    /\ Len(currentFile.resources) = 2
    /\ SameNormalized(currentFile.resources[1], currentFile.resources[2])
    /\ currentFile.resources[1].weeks_on_list = Num(3)
    /\ currentFile.resources[2].weeks_on_list = Num(5)
    /\ mergedFile.resources[1].weeks_on_list = Num(4)
    /\ mergedFile.resources[2].weeks_on_list = Num(4)
    /\ exactMatched = 2

(***************************************************************************)
(* One new resource against one stored resource: the inputs of the         *)
(* scorers, drawn from families of titles and of URLs.                     *)
(***************************************************************************)
\* "Designing Data-Intensive Applications"
TitleDataIntensive ==
    <<"D","e","s","i","g","n","i","n","g"," ","D","a","t","a","-","I","n","t","e","n","s","i","v","e"," ","A","p","p","l","i","c","a","t","i","o","n","s">>

\* "Designing Data Intensive Apps"
TitleDataApps ==
    <<"D","e","s","i","g","n","i","n","g"," ","D","a","t","a"," ","I","n","t","e","n","s","i","v","e"," ","A","p","p","s">>

\* "https://dataintensive.net"
UrlDataIntensive ==
    <<"h","t","t","p","s",":","/","/","d","a","t","a","i","n","t","e","n","s","i","v","e",".","n","e","t">>

\* "https://dataintensive.net/preview"
UrlDataPreview ==
    <<"h","t","t","p","s",":","/","/","d","a","t","a","i","n","t","e","n","s","i","v","e",".","n","e","t","/","p","r","e","v","i","e","w">>

\* "Data-Intensive" and "DataIntensive"
TitleHyphenated == <<"D","a","t","a","-","I","n","t","e","n","s","i","v","e">>
TitleGlued == <<"D","a","t","a","I","n","t","e","n","s","i","v","e">>

\* "one two six"; "six two one ten", which shares 3 of 4 words with it, in
\* another order; "six two ten", which shares 2 of 4 words with the first;
\* and a title of short words only, "a of it".
TitleThree == <<"o","n","e"," ","t","w","o"," ","s","i","x">>
TitleFour == <<"s","i","x"," ","t","w","o"," ","o","n","e"," ","t","e","n">>
TitleHalf == <<"s","i","x"," ","t","w","o"," ","t","e","n">>
TitleShortWords == <<"a"," ","o","f"," ","i","t">>

\* What can stand between the two words of a title, and around them.
Gaps ==
    { <<" ">>, <<" ", " ">>, <<"\t">>, <<":">>, <<"-">>, <<"emdash">>,
      <<"endash">>, <<":", " ">>, <<" ", "-", " ">>, <<>> }

Edges == { <<>>, <<" ">>, <<":">> }

\* "Clean" and "Code" in two spellings, with every gap and every edge.
TitleVariants ==
    { e \o w \o g \o <<"C","o","d","e">> \o e :
        e \in Edges,
        w \in {<<"C","l","e","a","n">>, <<"C","L","E","A","N">>},
        g \in Gaps }

\* Titles as they reach titleSimilarity: absent, empty, made of separators
\* and whitespace only, and the titles above.
TitleInputs ==
    {Undefined, Null, Str(<<>>), Str(<<"-">>), Str(<<" ", ":", " ">>)}
    \cup {Str(t) : t \in TitleVariants}
    \cup {Str(t) : t \in {TitleColon, TitleHyphen, TitleShort, TitleDataIntensive,
                          TitleDataApps, TitleHyphenated, TitleGlued, TitleThree,
                          TitleFour, TitleHalf, TitleShortWords}}

\* The parts of a URL: protocol, www. prefix, the rest, trailing slashes.
Protocols == { <<>>, HttpPrefix, <<"H","T","T","P","S",":","/","/">> }
WwwParts == { <<>>, WwwPrefix, WwwPrefix \o WwwPrefix }
Cores ==
    { <<"e","x","a","m","p","l","e",".","c","o","m","/","b","o","o","k">>,
      <<"E","x","a","m","p","l","e",".","c","o","m","/","B","o","o","k">> }
Slashes == { <<>>, <<"/">>, <<"/", "/">> }

UrlVariants ==
    { p \o w \o c \o t : p \in Protocols, w \in WwwParts, c \in Cores, t \in Slashes }

\* URLs as they reach urlSimilarity: absent, empty, a protocol alone, a
\* protocol and www. alone, a path without a domain, and the URLs above.
UrlInputs ==
    {Undefined, Null, Str(<<>>), Str(HttpsPrefix), Str(HttpPrefix \o WwwPrefix),
     Str(<<"/","b","o","o","k">>)}
    \cup {Str(u) : u \in UrlVariants}
    \cup {Str(u) : u \in {UrlOther, UrlDataIntensive, UrlDataPreview}}

\* The stored and the new entry of a pair.
Pair(stored, new) == [stored |-> stored, new |-> new]

\* Every two titles, on entries whose URLs are those of the two scenarios;
\* every two URLs, on entries whose titles are those of the two scenarios.
TitlePairs ==
    { Pair(Resource(t1, u.stored, u.weeks), Resource(t2, u.new, Undefined)) :
        t1 \in TitleInputs, t2 \in TitleInputs,
        u \in { [stored |-> Str(UrlBook), new |-> Str(UrlBookVariant), weeks |-> Num(3)],
                [stored |-> Str(UrlDataIntensive), new |-> Str(UrlDataPreview),
                 weeks |-> Num(1)] } }

UrlPairs ==
    { Pair(Resource(t.stored, u1, t.weeks), Resource(t.new, u2, Undefined)) :
        u1 \in UrlInputs, u2 \in UrlInputs,
        t \in { [stored |-> Str(TitleColon), new |-> Str(TitleHyphen), weeks |-> Num(3)],
                [stored |-> Str(TitleDataIntensive), new |-> Str(TitleDataApps),
                 weeks |-> Num(1)] } }

PairInit ==
    /\ \E pair \in TitlePairs \cup UrlPairs :
        /\ currentFile = ArrayFile(<<pair.stored>>)
        /\ newFile = ArrayFile(<<pair.new>>)
    /\ mergedFile = NoFile
    /\ pc = "start"
    /\ currentResourcesArray = <<>>
    /\ newResources = NoFile
    /\ i = 1
    /\ j = 1
    /\ bestMatch = 0
    /\ bestScore = 0
    /\ matchType = "none"
    /\ titleSim = 0
    /\ urlSim = 0
    /\ score = 0
    /\ exactMatched = 0
    /\ fuzzyMatched = 0
    /\ newCount = 0
    /\ GenIdle

PairSpec == PairInit /\ [][Next]_vars

\* The stored and the new entry of the pair being processed.
Stored == currentFile.resources[1]
Fresh == newFile.resources[1]

\* The inner callback has compared the pair: titleSim, urlSim and score are
\* those of the pair.
Compared == pc = "match" /\ j = 2

(***************************************************************************)
(* C12, as stated: the new "Designing Data Intensive Apps" at              *)
(* https://dataintensive.net/preview, against the stored "Designing        *)
(* Data-Intensive Applications" at https://dataintensive.net with          *)
(* weeks_on_list = 1, is accepted as a fuzzy match: weeks_on_list = 2 and  *)
(* fuzzyMatched = 1.                                                       *)
(***************************************************************************)
IsDataScenario ==
    /\ Stored = Resource(Str(TitleDataIntensive), Str(UrlDataIntensive), Num(1))
    /\ Fresh.title = Str(TitleDataApps)
    /\ Fresh.source = Str(UrlDataPreview)

C12_OverlapSameDomainAccepted ==
    pc = "done" /\ IsDataScenario =>
        /\ mergedFile.resources[1].weeks_on_list = Num(2)
        /\ fuzzyMatched = 1

(***************************************************************************)
(* C12, amended: the pair of the scenario has word overlap 3/5, so         *)
(* titleSim = 0.7, and the same domain with another path, so urlSim = 0.7; *)
(* that satisfies no row of the decision table, the score is 0 and the new *)
(* resource is classified as new: weeks_on_list = 1, newCount = 1,         *)
(* fuzzyMatched = 0.  A title similarity of 0.7 is accepted only with an   *)
(* equal URL (score 1.2).                                                  *)
(***************************************************************************)
C12_OverlapNeedsEqualUrl ==
    /\ Compared /\ IsDataScenario =>
           /\ WordOverlapScore(SignificantWords(normalizeTitle(Fresh.title)),
                               SignificantWords(normalizeTitle(Stored.title))) = 7
           /\ titleSim = 7
           /\ urlSim = 7
           /\ score = 0
    /\ Compared /\ titleSim = 7 => score = IF urlSim = 10 THEN 12 ELSE 0
    /\ pc = "done" /\ IsDataScenario =>
           /\ mergedFile.resources[1].weeks_on_list = Num(1)
           /\ newCount = 1
           /\ fuzzyMatched = 0
           /\ exactMatched = 0

C12_Witness ==
    /\ pc = "done"
    /\ IsDataScenario
    /\ mergedFile.resources[1].weeks_on_list = Num(1)
    /\ newCount = 1

(***************************************************************************)
(* Titles and URLs that differ only in spelling details.                   *)
(***************************************************************************)
NotSeparator(c) == ~IsSeparator(c)
NotEmpty(w) == w # <<>>

\* A title in lower case, without its separators, its whitespace trimmed
\* and its runs of whitespace collapsed.
Squeeze(s) == trim(CollapseWhitespace(SelectSeq(toLowerCase(s), NotSeparator)))

\* Two non-empty titles that differ only in letter case, in surrounding or
\* repeated whitespace and in separators.
TitlesDifferInDetails(a, b) ==
    /\ a.k = "string" /\ a.s # <<>>
    /\ b.k = "string" /\ b.s # <<>>
    /\ Squeeze(a.s) = Squeeze(b.s)

\* The words of a title, in lower case, when separators and whitespace
\* alike stand between words.
TitleWords(s) ==
    SelectSeq(
        split([k \in 1..Len(s) |->
                  IF IsSeparator(s[k]) \/ IsWhitespace(s[k])
                  THEN " " ELSE LowerChar(s[k])], " "),
        NotEmpty)

\* Two non-empty titles with the same words, whatever separators and
\* whitespace stand between and around them.
TitlesSameWords(a, b) ==
    /\ a.k = "string" /\ a.s # <<>>
    /\ b.k = "string" /\ b.s # <<>>
    /\ TitleWords(a.s) = TitleWords(b.s)

\* A lower-case URL without any protocol or www. at its front.
RECURSIVE StripPrefixes(_)
StripPrefixes(s) ==
    IF StartsWith(s, HttpPrefix) THEN StripPrefixes(Drop(s, Len(HttpPrefix)))
    ELSE IF StartsWith(s, HttpsPrefix) THEN StripPrefixes(Drop(s, Len(HttpsPrefix)))
    ELSE IF StartsWith(s, WwwPrefix) THEN StripPrefixes(Drop(s, Len(WwwPrefix)))
    ELSE s

\* Two non-empty URLs that differ only in letter case, in protocol, in
\* leading www. and in trailing slashes.
UrlsDifferInDetails(a, b) ==
    /\ a.k = "string" /\ a.s # <<>>
    /\ b.k = "string" /\ b.s # <<>>
    /\ RemoveTrailingSlashes(StripPrefixes(toLowerCase(a.s)))
           = RemoveTrailingSlashes(StripPrefixes(toLowerCase(b.s)))

\* A URL with at most one protocol, followed by at most one www.
SinglePrefix(a) ==
    StripPrefixes(RemoveWww(RemoveProtocol(toLowerCase(a.s))))
        = RemoveWww(RemoveProtocol(toLowerCase(a.s)))

ExactMatchOf(stored) ==
    /\ mergedFile.resources[1].weeks_on_list = IncrementedWeeks(stored.weeks_on_list)
    /\ AllCounted(<<stored>>) =>
           mergedFile.resources[1].weeks_on_list = Num(stored.weeks_on_list.n + 1)
    /\ exactMatched = 1
    /\ fuzzyMatched = 0
    /\ newCount = 0

SameResource(new, stored) ==
    /\ TitlesSameWords(new.title, stored.title)
    /\ UrlsDifferInDetails(new.source, stored.source)
    /\ SinglePrefix(new.source)
    /\ SinglePrefix(stored.source)

C14_Symmetric ==
    Compared =>
        /\ titleSim = titleSimilarity(Stored.title, Fresh.title)
        /\ urlSim = urlSimilarity(Stored.source, Fresh.source)
        /\ titleSimilarity(Fresh.title, Stored.title)
               = titleSimilarity(Stored.title, Fresh.title)
        /\ urlSimilarity(Fresh.source, Stored.source)
               = urlSimilarity(Stored.source, Fresh.source)

\* A short title against a longer one that contains it, and against a
\* shorter URL of the same domain: 0.9 and 0.7 in both directions.
C14_Witness ==
    /\ Compared
    /\ Len(Fresh.title.s) < Len(Stored.title.s)
    /\ Len(Fresh.source.s) > Len(Stored.source.s)
    /\ titleSim = 9
    /\ urlSim = 7
    /\ titleSimilarity(Stored.title, Fresh.title) = 9
    /\ urlSimilarity(Stored.source, Fresh.source) = 7

(***************************************************************************)
(* C15: titleSimilarity is the cascade, first matching rule wins: 0 if     *)
(* either input is empty; 1.0 if the normalized forms are equal; 0.9 if    *)
(* one normalized form is a substring of the other; otherwise, on the sets *)
(* of whitespace-separated tokens longer than 2 characters, 0 if either    *)
(* set is empty, 0.8 if the Jaccard overlap is > 0.7, 0.7 if it is > 0.5,  *)
(* else 0 (0 at exactly 0.5).  The result is in {0, 0.7, 0.8, 0.9, 1.0}.   *)
(***************************************************************************)
\* The whitespace-separated tokens of s that are longer than 2 characters.
RECURSIVE TokensFrom(_, _)
TokensFrom(s, word) ==
    IF s = <<>>
    THEN IF Len(word) > 2 THEN {word} ELSE {}
    ELSE IF IsWhitespace(Head(s))
         THEN (IF Len(word) > 2 THEN {word} ELSE {}) \cup TokensFrom(Tail(s), <<>>)
         ELSE TokensFrom(Tail(s), Append(word, Head(s)))

Tokens(s) == TokensFrom(s, <<>>)

IsSubstring(a, b) ==
    \E from \in 1..(Len(b) + 1), to \in 0..Len(b) : SubSeq(b, from, to) = a

\* Whether |a \cap b| / |a \cup b| > num / den.
JaccardAbove(a, b, num, den) ==
    den * Cardinality(a \cap b) > num * Cardinality(a \cup b)

CascadeRule(rule, a, b) ==
    CASE rule = 1 -> ~Truthy(a) \/ ~Truthy(b)
      [] rule = 2 -> normalizeTitle(a) = normalizeTitle(b)
      [] rule = 3 -> \/ IsSubstring(normalizeTitle(a), normalizeTitle(b))
                     \/ IsSubstring(normalizeTitle(b), normalizeTitle(a))
      [] rule = 4 -> \/ Tokens(normalizeTitle(a)) = {}
                     \/ Tokens(normalizeTitle(b)) = {}
      [] rule = 5 -> JaccardAbove(Tokens(normalizeTitle(a)),
                                  Tokens(normalizeTitle(b)), 7, 10)
      [] rule = 6 -> JaccardAbove(Tokens(normalizeTitle(a)),
                                  Tokens(normalizeTitle(b)), 1, 2)
      [] rule = 7 -> TRUE

CascadeValue == <<0, 10, 9, 0, 8, 7, 0>>

FirstRule(a, b) ==
    CHOOSE rule \in 1..7 :
        /\ CascadeRule(rule, a, b)
        /\ \A before \in 1..(rule - 1) : ~CascadeRule(before, a, b)

C15_TitleCascade ==
    Compared =>
        /\ titleSim = CascadeValue[FirstRule(Fresh.title, Stored.title)]
        /\ titleSim \in {0, 7, 8, 9, 10}

\* Two titles that share 2 of their 4 words, an overlap of exactly 0.5:
\* the last rule applies and the similarity is 0.
C15_Witness ==
    /\ Compared
    /\ Fresh.title = Str(TitleHalf)
    /\ Stored.title = Str(TitleThree)
    /\ FirstRule(Fresh.title, Stored.title) = 7
    /\ 2 * Cardinality(Tokens(normalizeTitle(Fresh.title))
                           \cap Tokens(normalizeTitle(Stored.title)))
           = Cardinality(Tokens(normalizeTitle(Fresh.title))
                             \cup Tokens(normalizeTitle(Stored.title)))
    /\ titleSim = 0

(***************************************************************************)
(* C19: a new resource whose title is not empty but is made of separators  *)
(* and whitespace only, so that it normalizes to the empty string, has     *)
(* title similarity 0 with every stored title of another normalized form,  *)
(* and is never accepted as a match of such a stored resource.             *)
(***************************************************************************)
NormalizesToEmpty(title) == Truthy(title) /\ normalizeTitle(title) = <<>>

HasWords(title) == normalizeTitle(title) # <<>>

C19_EmptyFormNeverMatches ==
    /\ Compared /\ NormalizesToEmpty(Fresh.title) /\ HasWords(Stored.title) =>
           titleSim = 0
    /\ pc = "done" /\ NormalizesToEmpty(Fresh.title) /\ HasWords(Stored.title) =>
           /\ mergedFile.resources[1].weeks_on_list = Num(1)
           /\ newCount = 1

(***************************************************************************)
(* Canonical forms: the stored entry holds the normalized title and the    *)
(* normalized URL of the new one, so that the scorers normalize what       *)
(* normalizeTitle and normalizeUrl returned.                               *)
(***************************************************************************)
MaxParts == 3

UrlParts ==
    { HttpPrefix, HttpsPrefix, WwwPrefix, <<"a", ".", "c", "o", "m">>, <<"/">>, <<"A">> }

TitleParts ==
    { <<" ">>, <<"\t">>, <<"-">>, <<":">>, <<"emdash">>, <<"A", "b">> }

\* The parts of a sequence of parts, joined.
RECURSIVE Joined(_)
Joined(parts) ==
    IF parts = <<>> THEN <<>> ELSE Head(parts) \o Joined(Tail(parts))

UrlStrings == {Joined(parts) : parts \in SeqsUpTo(UrlParts, MaxParts)}
TitleStrings == {Joined(parts) : parts \in SeqsUpTo(TitleParts, MaxParts)}

\* Every URL string under the title of the example, and every title string
\* under its URL.
CanonicalPairs ==
    { Pair(Resource(Str(normalizeTitle(Str(TitleColon))), Str(normalizeUrl(Str(x))),
                    Num(1)),
           Resource(Str(TitleColon), Str(x), Undefined)) : x \in UrlStrings }
    \cup
    { Pair(Resource(Str(normalizeTitle(Str(t))), Str(normalizeUrl(Str(UrlBook))),
                    Num(1)),
           Resource(Str(t), Str(UrlBook), Undefined)) : t \in TitleStrings }

CanonicalInit ==
    /\ \E pair \in CanonicalPairs :
        /\ currentFile = ArrayFile(<<pair.stored>>)
        /\ newFile = ArrayFile(<<pair.new>>)
    /\ mergedFile = NoFile
    /\ pc = "start"
    /\ currentResourcesArray = <<>>
    /\ newResources = NoFile
    /\ i = 1
    /\ j = 1
    /\ bestMatch = 0
    /\ bestScore = 0
    /\ matchType = "none"
    /\ titleSim = 0
    /\ urlSim = 0
    /\ score = 0
    /\ exactMatched = 0
    /\ fuzzyMatched = 0
    /\ newCount = 0
    /\ GenIdle

CanonicalSpec == CanonicalInit /\ [][Next]_vars

\* Normalizing the normalized form gives it back.
UrlIsCanonical(x) == normalizeUrl(Str(normalizeUrl(x))) = normalizeUrl(x)
TitleIsCanonical(t) == normalizeTitle(Str(normalizeTitle(t))) = normalizeTitle(t)

(***************************************************************************)
(* C20, as stated: normalizeUrl and normalizeTitle are idempotent, for     *)
(* every string, a repeated protocol or a repeated www. included.          *)
(***************************************************************************)
C20_Idempotent ==
    Compared =>
        /\ UrlIsCanonical(Fresh.source)
        /\ TitleIsCanonical(Fresh.title)

(***************************************************************************)
(* C20, amended: normalizeTitle is idempotent for every string.            *)
(* normalizeUrl(normalizeUrl(x)) = normalizeUrl(x) exactly when            *)
(* normalizeUrl(x) does not begin with http://, https:// or www.: one      *)
(* protocol and one www. are removed, so a repeated protocol or www., or a *)
(* protocol after www., survives the first call and is removed by the      *)
(* second.  When the form is canonical and not empty, the URL and its      *)
(* normalized form have urlSim = 1.0, and so have a title and its form.    *)
(***************************************************************************)
HasPrefixLeft(x) ==
    \/ StartsWith(normalizeUrl(x), HttpPrefix)
    \/ StartsWith(normalizeUrl(x), HttpsPrefix)
    \/ StartsWith(normalizeUrl(x), WwwPrefix)

C20_IdempotentWithoutPrefixLeft ==
    Compared =>
        /\ TitleIsCanonical(Fresh.title)
        /\ UrlIsCanonical(Fresh.source) <=> ~HasPrefixLeft(Fresh.source)
        /\ Stored.title = Str(normalizeTitle(Fresh.title))
        /\ Stored.source = Str(normalizeUrl(Fresh.source))
        /\ Truthy(Stored.title) => titleSim = 10
        /\ Truthy(Stored.source) => (urlSim = 10 <=> ~HasPrefixLeft(Fresh.source))

\* "http://http://a.com" was compared with its normalized form
\* "http://a.com", whose normalized form is "a.com": not the same URL.
C20_Witness ==
    /\ Compared
    /\ Fresh.source = Str(HttpPrefix \o HttpPrefix \o <<"a", ".", "c", "o", "m">>)
    /\ Stored.source = Str(HttpPrefix \o <<"a", ".", "c", "o", "m">>)
    /\ normalizeUrl(Stored.source) = <<"a", ".", "c", "o", "m">>
    /\ urlSim = 0

(***************************************************************************)
(* scripts/generate-resources.js as a state machine.                       *)
(***************************************************************************)
\* The values JSON.parse can return for the text between the braces: an
\* object without a resources array, or one with an array of resources.
GeneratedValues ==
    {NoArrayFile, ArrayFile(<<>>)} \cup {ArrayFile(<<r>>) : r \in NewPool}

\* result.content[0].text, as far as the script looks at it: whether it has
\* a "{" and a "}", which of the three JSON.parse attempts (lines 202, 230,
\* 243) is the first to accept what lies between them (0 when none does),
\* and the value that attempt returns.
ResponseTexts ==
    { [present |-> TRUE, open |-> o, close |-> c, parsedBy |-> 0, value |-> NoValue] :
        o \in BOOLEAN, c \in BOOLEAN }
    \cup
    { [present |-> TRUE, open |-> o, close |-> c, parsedBy |-> n, value |-> v] :
        o \in BOOLEAN, c \in BOOLEAN, n \in 1..3, v \in GeneratedValues }

\* What fetch resolves to: the status is OK or not, and the body has a
\* content[0].text or has none.
Responses == [ok : BOOLEAN, text : ResponseTexts \cup {NoText}]

\* /tmp/new-resources.json as an earlier run left it.
StaleFile == ArrayFile(<<Resource(Str(TitleShort), Str(UrlBook), Undefined)>>)

\* /tmp/current-resources.json with a list of c resources.
CurrentList(c) ==
    ArrayFile([k \in 1..c |-> Resource(Str(TitleShort), Str(UrlOther), Num(k))])

\* merge-and-update.js is not part of the run.
MergeIdle ==
    /\ mergedFile = NoFile
    /\ pc = "start"
    /\ currentResourcesArray = <<>>
    /\ newResources = NoFile
    /\ i = 1
    /\ j = 1
    /\ bestMatch = 0
    /\ bestScore = 0
    /\ matchType = "none"
    /\ titleSim = 0
    /\ urlSim = 0
    /\ score = 0
    /\ exactMatched = 0
    /\ fuzzyMatched = 0
    /\ newCount = 0

GenInit ==
    /\ genPc = "config"
    /\ hasApiKey \in BOOLEAN
    /\ hasPrompt \in BOOLEAN
    /\ apiCalls = 0
    /\ response = NoResponse
    /\ resources = NoValue
    /\ rawResponseFile = NoText
    /\ exitCode = "none"
    /\ targetCount \in {1, DefaultTargetCount}
    /\ mode = "none"
    /\ currentCount = 0
    /\ minKeep = 0
    /\ maxNew = 0
    /\ newFile \in {MissingFile, StaleFile}
    /\ currentFile \in {MissingFile, NoArrayFile} \cup {CurrentList(c) : c \in {0, 3}}
    /\ MergeIdle

\* The variables of merge-and-update.js other than newFile.
mergeVars ==
    <<currentFile, mergedFile, pc, currentResourcesArray, newResources, i, j,
      bestMatch, bestScore, matchType, titleSim, urlSim, score, exactMatched,
      fuzzyMatched, newCount>>

\* Lines 33-42: without the API key or the prompt file, process.exit(1).
CheckConfig ==
    /\ genPc = "config"
    /\ IF ~hasApiKey \/ ~hasPrompt
       THEN genPc' = "exited" /\ exitCode' = "1"
       ELSE genPc' = "build" /\ UNCHANGED exitCode
    /\ UNCHANGED <<hasApiKey, hasPrompt, apiCalls, response, resources,
                   rawResponseFile, newFile, instructionVars,
                   mergeVars>>

\* The literal 0.7 of line 100 as a double: 0x16666666666666 * 2^-53, the
\* 53 bits of the significand with the least significant bit first.
DoubleBits == 53
SeventyPercent ==
    [k \in 1..DoubleBits |->
        IF k = DoubleBits \/ (k - 1) % 4 \in {1, 2} THEN 1 ELSE 0]

\* Bit k of a, zero beyond its length.
Bit(a, k) == IF k <= Len(a) THEN a[k] ELSE 0

\* Binary addition, least significant bit first, from position k on.
RECURSIVE AddFrom(_, _, _, _, _)
AddFrom(a, b, k, carry, sum) ==
    IF k > Len(a) /\ k > Len(b)
    THEN IF carry = 1 THEN Append(sum, 1) ELSE sum
    ELSE CHOOSE r \in { AddFrom(a, b, next, s \div 2, bits) :
                           s \in {Bit(a, k) + Bit(b, k) + carry},
                           next \in {k + 1},
                           bits \in {Append(sum, (Bit(a, k) + Bit(b, k) + carry) % 2)} } : TRUE

AddBits(a, b) == AddFrom(a, b, 1, 0, <<>>)

\* The exact product of the integer n and the significand b.
RECURSIVE TimesBits(_, _)
TimesBits(n, b) ==
    IF n = 0 THEN <<>>
    ELSE CHOOSE r \in { AddBits(x, y) :
                           x \in {IF n % 2 = 1 THEN b ELSE <<>>},
                           y \in {<<0>> \o TimesBits(n \div 2, b)} } : TRUE

\* The product as the double the multiplication returns: 53 significant
\* bits, rounded to nearest, ties to even.
RoundToDouble(p) ==
    IF Len(p) <= DoubleBits THEN p
    ELSE LET d == Len(p) - DoubleBits
             kept == SubSeq(p, d + 1, Len(p))
             half == p[d] = 1
             sticky == \E k \in 1..(d - 1) : p[k] = 1
             up == half /\ (sticky \/ kept[1] = 1)
         IN [k \in 1..d |-> 0] \o (IF up THEN AddBits(kept, <<1>>) ELSE kept)

RECURSIVE NatOf(_)
NatOf(b) == IF b = <<>> THEN 0 ELSE Head(b) + 2 * NatOf(Tail(b))

\* Math.floor of p * 2^-53.
MathFloor(p) == NatOf(SubSeq(p, DoubleBits + 1, Len(p)))

\* The keep count in exact arithmetic.
MinKeepExact(count) == (7 * count) \div 10

\* Line 100: Math.floor(currentCount * 0.7).
MinKeep(count) ==
    CHOOSE m \in { MathFloor(RoundToDouble(p)) :
                      p \in {TimesBits(count, SeventyPercent)} } : TRUE

\* Lines 50-140: the current resources are read and the instruction is
\* built, in UPDATE mode when the current list has entries (lines 87-91)
\* and in GENERATE mode otherwise.
BuildInstruction ==
    /\ genPc = "build"
    /\ IF currentFile.exists /\ currentFile.hasArray
          /\ Len(currentFile.resources) > 0
       THEN /\ mode' = "update"
            /\ currentCount' = Len(currentFile.resources)
            /\ \E keep \in {MinKeep(Len(currentFile.resources))} :
                   /\ minKeep' = keep
                   /\ maxNew' = targetCount - keep
       ELSE /\ mode' = "generate"
            /\ UNCHANGED <<currentCount, minKeep, maxNew>>
    /\ genPc' = "call"
    /\ UNCHANGED <<hasApiKey, hasPrompt, apiCalls, response, resources,
                   rawResponseFile, exitCode, targetCount, newFile, mergeVars>>

\* Lines 141-162: fetch is called with the instruction; it resolves
\* to a response or rejects, and a rejection is caught at line 294.
CallApi ==
    /\ genPc = "call"
    /\ apiCalls' = apiCalls + 1
    /\ \/ /\ response' \in Responses
          /\ genPc' = "response"
       \/ /\ UNCHANGED response
          /\ genPc' = "fail"
    /\ UNCHANGED <<hasApiKey, hasPrompt, resources, rawResponseFile, exitCode,
                   newFile, instructionVars,
                   mergeVars>>

\* Lines 164-172: a response that is not OK throws, and so does a body
\* without content[0].text (jsonResponse.length); both are caught at 294.
ReadResponse ==
    /\ genPc = "response"
    /\ genPc' = IF response.ok /\ response.text.present THEN "clean" ELSE "fail"
    /\ UNCHANGED <<hasApiKey, hasPrompt, apiCalls, response, resources,
                   rawResponseFile, exitCode, newFile, instructionVars,
                   mergeVars>>

\* Lines 177-197: the object boundaries; without a "{" or a "}" the script
\* throws "No JSON object found in response", caught at line 273.
CleanResponse ==
    /\ genPc = "clean"
    /\ genPc' = IF response.text.open /\ response.text.close
                THEN "parse" ELSE "save_raw"
    /\ UNCHANGED <<hasApiKey, hasPrompt, apiCalls, response, resources,
                   rawResponseFile, exitCode, newFile, instructionVars,
                   mergeVars>>

\* Lines 199-246: the three parsing strategies; the error of the third is
\* caught at line 273.
ParseJson ==
    /\ genPc = "parse"
    /\ IF response.text.parsedBy = 0
       THEN genPc' = "save_raw" /\ UNCHANGED resources
       ELSE genPc' = "validate" /\ resources' = response.text.value
    /\ UNCHANGED <<hasApiKey, hasPrompt, apiCalls, response, rawResponseFile,
                   exitCode, newFile, instructionVars,
                   mergeVars>>

\* The validation left out: every parsed value is written.
ValidateNothing ==
    /\ genPc = "validate"
    /\ genPc' = "write"
    /\ UNCHANGED <<hasApiKey, hasPrompt, apiCalls, response, resources,
                   rawResponseFile, exitCode, newFile, instructionVars,
                   mergeVars>>

\* Lines 248-253: if (!resources.resources || !Array.isArray(...)) throw.
ValidateResources ==
    /\ genPc = "validate"
    /\ genPc' = IF resources.hasArray THEN "write" ELSE "save_raw"
    /\ UNCHANGED <<hasApiKey, hasPrompt, apiCalls, response, resources,
                   rawResponseFile, exitCode, newFile, instructionVars,
                   mergeVars>>

\* Lines 258-272 and 303-304: the file is written, generateResources
\* returns and the script ends.
WriteNewResources ==
    /\ genPc = "write"
    /\ newFile' = resources
    /\ genPc' = "exited"
    /\ exitCode' = "0"
    /\ UNCHANGED <<hasApiKey, hasPrompt, apiCalls, response, resources,
                   rawResponseFile, instructionVars,
                   mergeVars>>

\* Lines 273-292: the raw response is saved, unless saving fails (that
\* error is caught at line 288), and the error is thrown again.
SaveRawResponse ==
    /\ genPc = "save_raw"
    /\ \/ rawResponseFile' = response.text
       \/ UNCHANGED rawResponseFile
    /\ genPc' = "fail"
    /\ UNCHANGED <<hasApiKey, hasPrompt, apiCalls, response, resources, exitCode,
                   newFile, instructionVars,
                   mergeVars>>

\* Lines 294-297: process.exit(1).
Fail ==
    /\ genPc = "fail"
    /\ genPc' = "exited"
    /\ exitCode' = "1"
    /\ UNCHANGED <<hasApiKey, hasPrompt, apiCalls, response, resources,
                   rawResponseFile, newFile, instructionVars,
                   mergeVars>>

GenNext ==
    \/ CheckConfig
    \/ BuildInstruction
    \/ CallApi
    \/ ReadResponse
    \/ CleanResponse
    \/ ParseJson
    \/ ValidateResources
    \/ WriteNewResources
    \/ SaveRawResponse
    \/ Fail

GenSpec == GenInit /\ [][GenNext]_vars

(***************************************************************************)
(* C18: /tmp/new-resources.json is written only after the API call         *)
(* returned OK, one of the parse strategies parsed the text and the parsed *)
(* value has a resources array; on every failure path (response not OK, no *)
(* JSON object found, all strategies failing, no resources array) the      *)
(* script ends with exit status 1, without a second API call and without   *)
(* writing /tmp/new-resources.json.                                        *)
(***************************************************************************)
\* The response is one the script accepts.
GoodResponse ==
    /\ response.ok
    /\ response.text.present
    /\ response.text.open
    /\ response.text.close
    /\ response.text.parsedBy \in 1..3
    /\ response.text.value.hasArray

C18_WrittenOnlyWhenValid ==
    /\ genPc = "write" => GoodResponse /\ resources = response.text.value
    /\ apiCalls <= 1
    /\ genPc = "exited" =>
           /\ exitCode \in {"0", "1"}
           /\ exitCode = "0" <=> apiCalls = 1 /\ GoodResponse
           /\ exitCode = "0" => newFile = response.text.value
           /\ exitCode = "1" => newFile \in {MissingFile, StaleFile}
    /\ genPc # "exited" => exitCode = "none" /\ ENABLED GenNext

C18_OnlyWriteStepWrites ==
    newFile' # newFile =>
        /\ genPc = "write"
        /\ GoodResponse
        /\ newFile' = response.text.value

C18_WriteAfterValidation ==
    []C18_WrittenOnlyWhenValid /\ [][C18_OnlyWriteStepWrites]_vars

\* An OK response whose text only the third strategy parsed, to an object
\* without a resources array: exit status 1 after one call, the raw
\* response saved and the file of the earlier run still in place.
C18_Witness ==
    /\ genPc = "exited"
    /\ exitCode = "1"
    /\ apiCalls = 1
    /\ response.ok
    /\ response.text.parsedBy = 3
    /\ resources = NoArrayFile
    /\ rawResponseFile = response.text
    /\ newFile = StaleFile

(***************************************************************************)
(* The instruction of the generation script over every size of the current *)
(* list and every target count.                                            *)
(***************************************************************************)
MaxCurrent == 90
MaxTarget == 20

InstructionInit ==
    /\ genPc = "config"
    /\ hasApiKey \in BOOLEAN
    /\ hasPrompt \in BOOLEAN
    /\ apiCalls = 0
    /\ response = NoResponse
    /\ resources = NoValue
    /\ rawResponseFile = NoText
    /\ exitCode = "none"
    /\ targetCount \in 1..MaxTarget
    /\ mode = "none"
    /\ currentCount = 0
    /\ minKeep = 0
    /\ maxNew = 0
    /\ newFile = MissingFile
    /\ currentFile \in {MissingFile, NoArrayFile}
                         \cup {CurrentList(c) : c \in 0..MaxCurrent}
    /\ MergeIdle

\* The script up to the call of fetch.
InstructionNext ==
    \/ CheckConfig
    \/ BuildInstruction

InstructionSpec == InstructionInit /\ [][InstructionNext]_vars

\* The instruction is built, in UPDATE mode.
UpdateInstruction == genPc = "call" /\ mode = "update"

(***************************************************************************)
(* C21: in UPDATE mode the numbers put into the instruction are consistent *)
(* for every current list size c >= 1 and every target count T >= 1:       *)
(* minKeep = floor(0.7 * c), maxNew = T - minKeep, 0 <= minKeep <= c,      *)
(* minKeep + maxNew = T, and maxNew >= 0.  The script does not have this   *)
(* property: with 3 current resources and a target of 1 it asks for -1 new *)
(* resources, and with 90 current resources it keeps 62, not 63.           *)
(***************************************************************************)
C21_ConsistentNumbers ==
    UpdateInstruction =>
        /\ currentCount = Len(currentFile.resources)
        /\ currentCount >= 1
        /\ minKeep = MinKeepExact(currentCount)
        /\ maxNew = targetCount - minKeep
        /\ 0 <= minKeep
        /\ minKeep <= currentCount
        /\ minKeep + maxNew = targetCount
        /\ maxNew >= 0

====
